---- MODULE Spec2Model ----
(***************************************************************************)
(* Key binding handling of penrose.                                        *)
(*                                                                         *)
(*  - crates/penrose_proc/src/lib.rs: the validate_user_bindings proc      *)
(*    macro (BindingsInput::parse, as_bindings, expand_templates and the   *)
(*    validation loop), run at compile time.                               *)
(*  - src/helpers.rs: parse_key_binding, run at start up.                  *)
(*                                                                         *)
(* A string is a sequence of one-character strings: "M-j" is               *)
(* <<"M", "-", "j">>. An Option<T> is a sequence of length at most one:    *)
(* None is <<>> and Some(x) is <<x>>.                                      *)
(***************************************************************************)
EXTENDS Naturals, Sequences, FiniteSets

VARIABLES
    literals,   \* macro input: the literal binding strings
    groups,     \* macro input: the template groups [templates, keynames]
    xmodmap,    \* environment: key name -> key code, as 'xmodmap -pke' gives it
    pc,         \* position of the macro
    bindings,   \* BindingsInput: the bindings collected so far
    gi,         \* index of the next template group to expand
    names,      \* validate_user_bindings: names
    seen,       \* validate_user_bindings: seen
    bi,         \* index of the binding the validation loop is at (0: not started)
    errors,     \* the panics raised, in order
    pattern,    \* parse_key_binding: pattern
    result      \* parse_key_binding: what the call came to

vars == <<literals, groups, xmodmap, pc, bindings, gi, names, seen, bi, errors,
          pattern, result>>

-----------------------------------------------------------------------------
(* Bounds of the model *)

MaxLiterals == 2
MaxGroups == 2
MaxTemplates == 2
MaxKeys == 2
MaxStrLen == 5
MaxSegs == 3

-----------------------------------------------------------------------------
(* Strings and options *)

None == <<>>
Some(x) == <<x>>

Dash == <<"-">>
Placeholder == <<"{", "}">>

Last(s) == s[Len(s)]
Front(s) == SubSeq(s, 1, Len(s) - 1)

SeqsUpTo(S, n) == UNION {[1..k -> S] : k \in 0..n}

\* str::split('-'): always at least one segment, empty segments kept
RECURSIVE Split(_)
Split(s) ==
    IF s = <<>> THEN << <<>> >>
    ELSE LET rest == Split(Tail(s)) IN
         IF Head(s) = "-" THEN << <<>> >> \o rest
         ELSE << <<Head(s)>> \o Head(rest) >> \o Tail(rest)

\* [&str]::join(sep)
RECURSIVE Join(_, _)
Join(parts, sep) ==
    IF parts = <<>> THEN <<>>
    ELSE IF Len(parts) = 1 THEN parts[1]
    ELSE parts[1] \o sep \o Join(Tail(parts), sep)

-----------------------------------------------------------------------------
(* crates/penrose_proc/src/lib.rs *)

VALID_MODIFIERS == {<<"A">>, <<"M">>, <<"S">>, <<"C">>}

Binding(raw, mods, keyname) == [raw |-> raw, mods |-> mods, keyname |-> keyname]

\* the closure of as_bindings: one raw string to one Binding
as_binding_first_dash(s) ==
    LET parts == Split(s) IN
    IF Len(parts) <= 1
    THEN Binding(s, <<s>>, None)
    ELSE Binding(s, <<parts[1]>>, Some(Join(Tail(parts), Dash)))

as_binding(s) ==
    LET parts == Split(s) IN
    IF Len(parts) <= 1
    THEN Binding(s, <<s>>, None)
    ELSE Binding(s, Front(parts), Some(Last(parts)))

as_bindings(raw) == [i \in 1..Len(raw) |-> as_binding(raw[i])]

\* the inner closure of expand_templates: one Binding per key name
expand_one_no_dash(parts, keynames) ==
    [j \in 1..Len(keynames) |->
        Binding(Join(parts, Dash) \o keynames[j], parts, Some(keynames[j]))]

expand_one(parts, keynames) ==
    [j \in 1..Len(keynames) |->
        Binding(Join(parts, Dash) \o Dash \o keynames[j], parts, Some(keynames[j]))]

Expanded(bs) == [panic |-> FALSE, template |-> <<>>, bindings |-> bs]
InvalidTemplate(t) == [panic |-> TRUE, template |-> t, bindings |-> <<>>]

\* mutant: key names outer, templates inner
RECURSIVE expand_templates_key_outer(_, _)
expand_templates_key_outer(templates, keynames) ==
    IF \E i \in 1..Len(templates) : Last(Split(templates[i])) # Placeholder
    THEN InvalidTemplate(templates[CHOOSE i \in 1..Len(templates) :
            /\ Last(Split(templates[i])) # Placeholder
            /\ \A h \in 1..(i - 1) : Last(Split(templates[h])) = Placeholder])
    ELSE IF keynames = <<>> THEN Expanded(<<>>)
    ELSE Expanded(
            [i \in 1..Len(templates) |->
                expand_one(Front(Split(templates[i])), <<Head(keynames)>>)[1]]
            \o expand_templates_key_outer(templates, Tail(keynames)).bindings)

\* mutant: a template that does not end in the placeholder is skipped
RECURSIVE expand_templates_skip(_, _)
expand_templates_skip(templates, keynames) ==
    IF templates = <<>> THEN Expanded(<<>>)
    ELSE LET parts == Split(Head(templates))
             rest == expand_templates_skip(Tail(templates), keynames)
         IN  IF Last(parts) # Placeholder THEN rest
             ELSE Expanded(expand_one(Front(parts), keynames) \o rest.bindings)

\* flat_map over the templates in order: the first template that does not end
\* in the placeholder panics, whatever the key names are
RECURSIVE expand_templates(_, _)
expand_templates(templates, keynames) ==
    IF templates = <<>> THEN Expanded(<<>>)
    ELSE LET t == Head(templates)
             parts == Split(t)
         IN  IF Last(parts) # Placeholder THEN InvalidTemplate(t)
             ELSE LET rest == expand_templates(Tail(templates), keynames) IN
                  IF rest.panic THEN rest
                  ELSE Expanded(expand_one(Front(parts), keynames) \o rest.bindings)

has_valid_modifiers_maybe_empty(binding) ==
    \A i \in 1..Len(binding.mods) : binding.mods[i] \in VALID_MODIFIERS

has_valid_modifiers(binding) ==
    /\ binding.mods # <<>>
    /\ \A i \in 1..Len(binding.mods) : binding.mods[i] \in VALID_MODIFIERS

is_valid_keyname(binding, ns) ==
    IF binding.keyname # None THEN binding.keyname[1] \in ns ELSE FALSE

\* mutant: the modifier set is checked before the key name
validate_binding_mods_first(b, sn, ns) ==
    IF b.raw \in sn THEN "duplicate"
    ELSE IF ~has_valid_modifiers(b) THEN "invalid_modifiers"
    ELSE IF b.keyname = None THEN "no_key_name"
    ELSE IF ~is_valid_keyname(b, ns) THEN "unknown_key"
    ELSE "ok"

\* the body of the loop of validate_user_bindings: the first check that fails
\* panics (panic! for a duplicate, report_error, which panics, for the others)
validate_binding(b, sn, ns) ==
    IF b.raw \in sn THEN "duplicate"
    ELSE IF b.keyname = None THEN "no_key_name"
    ELSE IF ~is_valid_keyname(b, ns) THEN "unknown_key"
    ELSE IF ~has_valid_modifiers(b) THEN "invalid_modifiers"
    ELSE "ok"

Panic(kind, raw) == [kind |-> kind, raw |-> raw]

\* BindingsInput::parse, line 25
ParseLiterals ==
    /\ pc = "parse_literals"
    /\ bindings' = as_bindings(literals)
    /\ gi' = 1
    /\ pc' = "parse_groups"
    /\ UNCHANGED <<literals, groups, xmodmap, names, seen, bi, errors, pattern, result>>

\* BindingsInput::parse, one turn of the loop over the template groups
ExpandGroup ==
    /\ pc = "parse_groups"
    /\ gi <= Len(groups)
    /\ LET r == expand_templates(groups[gi].templates, groups[gi].keynames) IN
       IF r.panic
       THEN /\ errors' = Append(errors, Panic("invalid_template", r.template))
            /\ pc' = "panicked"
            /\ UNCHANGED <<bindings, gi>>
       ELSE /\ bindings' = bindings \o r.bindings
            /\ gi' = gi + 1
            /\ UNCHANGED <<pc, errors>>
    /\ UNCHANGED <<literals, groups, xmodmap, names, seen, bi, pattern, result>>

\* the parse is over: validate_user_bindings, lines 154-155
FetchKeynames ==
    /\ pc = "parse_groups"
    /\ gi > Len(groups)
    /\ names' = DOMAIN xmodmap
    /\ seen' = {}
    /\ bi' = 1
    /\ pc' = "validate"
    /\ UNCHANGED <<literals, groups, xmodmap, bindings, gi, errors, pattern, result>>

\* validate_user_bindings, one turn of the loop over the bindings
ValidateBinding ==
    /\ pc = "validate"
    /\ bi <= Len(bindings)
    /\ LET b == bindings[bi]
           v == validate_binding(b, seen, names)
       IN  IF v # "ok"
           THEN /\ errors' = Append(errors, Panic(v, b.raw))
                /\ pc' = "panicked"
                /\ UNCHANGED <<seen, bi>>
           ELSE /\ seen' = seen \cup {b.raw}
                /\ bi' = bi + 1
                /\ UNCHANGED <<pc, errors>>
    /\ UNCHANGED <<literals, groups, xmodmap, bindings, gi, names, pattern, result>>

\* validate_user_bindings, line 191
Finish ==
    /\ pc = "validate"
    /\ bi > Len(bindings)
    /\ pc' = "done"
    /\ UNCHANGED <<literals, groups, xmodmap, bindings, gi, names, seen, bi, errors,
                   pattern, result>>

-----------------------------------------------------------------------------
(* src/helpers.rs *)

MOD_MASK_SHIFT == 1
MOD_MASK_CONTROL == 4
MOD_MASK_1 == 8
MOD_MASK_4 == 64

\* Rust's | on unsigned integers
RECURSIVE BitOr(_, _)
BitOr(a, b) ==
    IF a = 0 THEN b
    ELSE IF b = 0 THEN a
    ELSE (IF a % 2 = 1 \/ b % 2 = 1 THEN 1 ELSE 0) + 2 * BitOr(a \div 2, b \div 2)

Pending == [kind |-> "pending", mask |-> 0, code |-> 0, token |-> <<>>]
NotFound == [kind |-> "none", mask |-> 0, code |-> 0, token |-> <<>>]
KeyCode(mask, code) == [kind |-> "some", mask |-> mask, code |-> code, token |-> <<>>]
Die(token) == [kind |-> "die", mask |-> 0, code |-> 0, token |-> token]

\* the match of the closure given to map, lines 87-93
mod_mask(tok) ==
    CASE tok = <<"A">> -> MOD_MASK_1
      [] tok = <<"M">> -> MOD_MASK_4
      [] tok = <<"S">> -> MOD_MASK_SHIFT
      [] tok = <<"C">> -> MOD_MASK_CONTROL

\* mutant: the masks are added
RECURSIVE fold_mask_sum(_, _)
fold_mask_sum(parts, acc) ==
    IF parts = <<>> THEN KeyCode(acc, 0)
    ELSE IF Head(parts) \notin VALID_MODIFIERS THEN Die(Head(parts))
    ELSE fold_mask_sum(Tail(parts), acc + mod_mask(Head(parts)))

\* mutant: a token that is no modifier counts for nothing
RECURSIVE fold_mask_lenient(_, _)
fold_mask_lenient(parts, acc) ==
    IF parts = <<>> THEN KeyCode(acc, 0)
    ELSE IF Head(parts) \notin VALID_MODIFIERS THEN fold_mask_lenient(Tail(parts), acc)
    ELSE fold_mask_lenient(Tail(parts), BitOr(acc, mod_mask(Head(parts))))

\* parts.iter().map(..).fold(0, |acc, v| acc | v): the tokens are mapped in
\* order as the fold asks for them, and the first that is no modifier dies
RECURSIVE fold_mask(_, _)
fold_mask(parts, acc) ==
    IF parts = <<>> THEN KeyCode(acc, 0)
    ELSE IF Head(parts) \notin VALID_MODIFIERS THEN Die(Head(parts))
    ELSE fold_mask(Tail(parts), BitOr(acc, mod_mask(Head(parts))))

\* mutant: the mask is computed before the key name is looked up
parse_key_binding_mask_first(s, known_codes) ==
    LET parts == Split(s)
        m == fold_mask(Front(parts), 0)
    IN  IF m.kind = "die" THEN m
        ELSE IF Last(parts) \in DOMAIN known_codes
        THEN KeyCode(m.mask % 65536, known_codes[Last(parts)])
        ELSE NotFound

parse_key_binding(s, known_codes) ==
    LET parts == Split(s) IN
    IF Last(parts) \in DOMAIN known_codes
    THEN LET m == fold_mask(Front(parts), 0) IN
         IF m.kind = "die" THEN m
         ELSE KeyCode(m.mask % 65536, known_codes[Last(parts)])
    ELSE NotFound

\* a call of parse_key_binding with the table keycodes_from_xmodmap gave
Resolve ==
    /\ result = Pending
    /\ result' = parse_key_binding(pattern, xmodmap)
    /\ UNCHANGED <<literals, groups, xmodmap, pc, bindings, gi, names, seen, bi,
                   errors, pattern>>

-----------------------------------------------------------------------------
(* Inputs *)

s_M_j == <<"M", "-", "j">>
s_X_j == <<"X", "-", "j">>
s_j == <<"j">>
s_q == <<"q">>
s_M_q == <<"M", "-", "q">>
s_j_q == <<"j", "-", "q">>
s_Up == <<"U", "p">>
t_M == <<"M", "-", "{", "}">>
t_M_S == <<"M", "-", "S", "-", "{", "}">>
t_bare == <<"{", "}">>
t_dash == <<"-", "{", "}">>
t_glued == <<"M", "{", "}">>
t_not_last == <<"{", "}", "-", "M">>

\* the key code xmodmap gives for a key name
XCode(n) ==
    CASE n = s_j -> 44
      [] n = s_q -> 24
      [] n = s_Up -> 111
      [] n = <<"M">> -> 58
      [] OTHER -> 0

Table(D) == [n \in D |-> XCode(n)]

Group(ts, ks) == [templates |-> ts, keynames |-> ks]

NoCall ==
    /\ pattern = <<>>
    /\ result = Pending

Start ==
    /\ pc = "parse_literals"
    /\ bindings = <<>>
    /\ gi = 0
    /\ names = {}
    /\ seen = {}
    /\ bi = 0
    /\ errors = <<>>

\* valid, invalid modifier, no key name, key name some tables lack
LiteralPool == {s_M_j, s_X_j, s_j, s_M_q}

GroupPool ==
    { Group(<<t_M>>, <<s_j>>), Group(<<t_bare>>, <<s_j>>),
      Group(<<t_M>>, <<s_j, s_q>>), Group(<<t_M, s_M_j>>, <<s_j>>) }

Init ==
    /\ literals \in SeqsUpTo(LiteralPool, MaxLiterals)
    /\ groups \in SeqsUpTo(GroupPool, MaxGroups)
    /\ xmodmap \in {Table({s_j}), Table({s_j, s_q})}
    /\ Start
    /\ NoCall

Next ==
    \/ ParseLiterals
    \/ ExpandGroup
    \/ FetchKeynames
    \/ ValidateBinding
    \/ Finish

Spec == Init /\ [][Next]_vars

\* template groups: a well-formed and a malformed template at every position
TemplateGroups ==
    { Group(ts, <<s_j>>) : ts \in SeqsUpTo({t_M, s_M_j, t_glued}, MaxTemplates) }
    \cup { Group(<<t_glued>>, <<>>), Group(<<t_M>>, <<s_j, s_q>>) }

InitTemplates ==
    /\ literals \in {<<>>, <<s_X_j>>}
    /\ groups \in SeqsUpTo(TemplateGroups, MaxGroups)
    /\ xmodmap = Table({s_j, s_q})
    /\ Start
    /\ NoCall

SpecTemplates == InitTemplates /\ [][Next]_vars

\* one template group
ExpandTemplatePool == {t_M, t_M_S, t_bare, t_dash, s_M_j, t_glued, t_not_last}
KeyPool == {s_j, s_q, s_j_q}

InitExpand ==
    /\ literals \in {<<>>, <<s_M_j>>}
    /\ \E ts \in SeqsUpTo(ExpandTemplatePool, MaxTemplates) :
       \E ks \in SeqsUpTo(KeyPool, MaxKeys) :
          groups = <<Group(ts, ks)>>
    /\ xmodmap = Table({s_j, s_q})
    /\ Start
    /\ NoCall

NextExpand ==
    \/ ParseLiterals
    \/ ExpandGroup

SpecExpand == InitExpand /\ [][NextExpand]_vars

\* one literal, every string over the alphabet
InitParse ==
    /\ \E s \in SeqsUpTo({"M", "S", "j", "-"}, MaxStrLen) : literals = <<s>>
    /\ groups = <<>>
    /\ xmodmap = Table({s_j})
    /\ Start
    /\ NoCall

SpecParse == InitParse /\ [][ParseLiterals]_vars

\* one pattern, given to the macro as its only literal and to parse_key_binding
TokenPool == {<<"A">>, <<"M">>, <<"S">>, <<"C">>, <<"X">>, s_j, s_Up, <<>>}

InitResolve ==
    /\ \E segs \in SeqsUpTo(TokenPool, MaxSegs) : pattern = Join(segs, Dash)
    /\ result = Pending
    /\ literals = <<pattern>>
    /\ groups = <<>>
    /\ xmodmap \in {Table({}), Table({s_j}), Table({s_j, s_Up}), Table({s_j, <<"M">>})}
    /\ Start

NextResolve ==
    \/ ParseLiterals
    \/ FetchKeynames
    \/ ValidateBinding
    \/ Finish
    \/ Resolve

SpecResolve == InitResolve /\ [][NextResolve]_vars

-----------------------------------------------------------------------------
(* What the claims speak of *)

Terminated == pc \in {"done", "panicked"}

\* the validation loop was entered
Validated == bi >= 1

NoDash(s) == \A i \in 1..Len(s) : s[i] # "-"

Min(S) == CHOOSE x \in S : \A y \in S : x <= y

ModifierTokens == {<<"A">>, <<"M">>, <<"S">>, <<"C">>}

\* the binding at i repeats the raw string of an earlier binding
Repeats(i) == \E h \in 1..(i - 1) : bindings[h].raw = bindings[i].raw

KnownKey(b) == b.keyname \in {<<n>> : n \in names}

LegalMods(b) ==
    /\ Len(b.mods) >= 1
    /\ \A m \in 1..Len(b.mods) : b.mods[m] \in ModifierTokens

Violating(i) ==
    \/ Repeats(i)
    \/ ~KnownKey(bindings[i])
    \/ ~LegalMods(bindings[i])

ViolatingSet == {i \in 1..Len(bindings) : Violating(i)}

\* the first check, in the order of section 4.3, that the binding at i fails
FirstFailure(i) ==
    IF Repeats(i) THEN "duplicate"
    ELSE IF bindings[i].keyname = <<>> THEN "no_key_name"
    ELSE IF ~KnownKey(bindings[i]) THEN "unknown_key"
    ELSE "invalid_modifiers"

Canonical(i) ==
    /\ bindings[i].keyname # <<>>
    /\ KnownKey(bindings[i])
    /\ LegalMods(bindings[i])
    /\ \A h \in 1..Len(bindings) : h # i => bindings[h].raw # bindings[i].raw

\* C3: the macro accepts a binding set exactly when every binding, literal or
\* expanded from a template, has a known key name, a non-empty modifier list
\* of A, M, S, C only, and a raw string no other binding has; a binding with
\* modifiers ["X"] and the known key name "j" is rejected as an invalid
\* modifier set.
C3_AcceptsExactlyCanonical ==
    (Terminated /\ Validated) =>
        /\ (pc = "done") <=> (\A i \in 1..Len(bindings) : Canonical(i))
        /\ ( /\ pc = "panicked"
             /\ bindings[bi].mods = << <<"X">> >>
             /\ bindings[bi].keyname = << <<"j">> >>
             /\ <<"j">> \in names
             /\ ~Repeats(bi) )
           => errors = <<Panic("invalid_modifiers", bindings[bi].raw)>>

C3_Witness ==
    /\ pc = "panicked"
    /\ Validated
    /\ bi > Len(literals)
    /\ \E h \in 1..Len(literals) : bindings[h].raw = bindings[bi].raw
    /\ \A i \in 1..Len(bindings) : KnownKey(bindings[i]) /\ LegalMods(bindings[i])

\* the template is the placeholder, or ends in '-' and the placeholder
EndsInPlaceholder(t) ==
    /\ Len(t) >= 2
    /\ t[Len(t) - 1] = "{"
    /\ t[Len(t)] = "}"
    /\ (Len(t) >= 3 => t[Len(t) - 2] = "-")

MalformedAt ==
    UNION { { <<g, k>> : k \in {k \in 1..Len(groups[g].templates) :
                                   ~EndsInPlaceholder(groups[g].templates[k])} } :
            g \in 1..Len(groups) }

FirstMalformed ==
    CHOOSE f \in MalformedAt :
        \A o \in MalformedAt : f[1] < o[1] \/ (f[1] = o[1] /\ f[2] <= o[2])

\* C7: when some template of the input does not end in the placeholder, the
\* macro never gets to the validation loop: no binding is validated, no
\* validation error is reported, and the only panic is the invalid template
\* one, raised when the group of the first such template is expanded.
C7_MalformedTemplateAborts ==
    MalformedAt # {} =>
        /\ pc \in {"parse_literals", "parse_groups", "panicked"}
        /\ bi = 0
        /\ seen = {}
        /\ gi <= FirstMalformed[1]
        /\ IF pc = "panicked"
           THEN /\ gi = FirstMalformed[1]
                /\ errors = <<Panic("invalid_template",
                      groups[FirstMalformed[1]].templates[FirstMalformed[2]])>>
           ELSE errors = <<>>

C7_Witness ==
    /\ pc = "panicked"
    /\ MalformedAt # {}
    /\ FirstMalformed = <<2, 2>>
    /\ literals # <<>>
    /\ Len(bindings) >= 2

\* the one template group has been expanded
ExpandedOne == pc = "parse_groups" /\ gi = 2

\* the binding expand_templates made of template i and key name j (from 1)
Made(i, j) == bindings[Len(literals) + (i - 1) * Len(groups[1].keynames) + j]

\* C6: T templates that end in the placeholder and K key names expand to T*K
\* bindings, templates outer and key names inner; the binding of template i
\* and key name j has the template's segments before the placeholder as its
\* modifiers, the key name as its key name, and the modifiers joined with '-',
\* then '-' and the key name, as its raw string.
C6_CrossProduct ==
    LET ts == groups[1].templates
        ks == groups[1].keynames
    IN  /\ pc = "panicked" => \E i \in 1..Len(ts) : ~EndsInPlaceholder(ts[i])
        /\ ExpandedOne =>
            /\ Len(bindings) = Len(literals) + Len(ts) * Len(ks)
            /\ \A i \in 1..Len(ts) : \A j \in 1..Len(ks) :
                /\ Made(i, j).mods = Front(Split(ts[i]))
                /\ Made(i, j).keyname = <<ks[j]>>
                /\ Made(i, j).raw = Join(Front(Split(ts[i])), Dash) \o Dash \o ks[j]

C6_Witness ==
    /\ ExpandedOne
    /\ Len(groups[1].templates) = 2
    /\ Len(groups[1].keynames) = 2
    /\ groups[1].templates[1] # groups[1].templates[2]
    /\ groups[1].keynames[1] # groups[1].keynames[2]

\* the Binding Token Parser gives the binding's modifiers and key name back
\* from its raw string
Agrees(b) ==
    /\ as_binding(b.raw).mods = b.mods
    /\ as_binding(b.raw).keyname = b.keyname

\* C10 as stated: every binding made by expand_templates has the modifiers and
\* the key name that as_bindings gives for its raw string.
C10_ExpansionAgreesWithParser ==
    ExpandedOne =>
        \A k \in (Len(literals) + 1)..Len(bindings) : Agrees(bindings[k])

\* C10 as amended: the binding made of a template and a key name agrees with
\* as_bindings on its raw string exactly when the template has at least one
\* segment before the placeholder and the key name contains no '-'.
C10_AgreesUnlessBareOrDashed ==
    ExpandedOne =>
        \A i \in 1..Len(groups[1].templates) : \A j \in 1..Len(groups[1].keynames) :
            Agrees(Made(i, j)) <=>
                (groups[1].templates[i] # Placeholder /\ NoDash(groups[1].keynames[j]))

C10_Witness ==
    /\ ExpandedOne
    /\ \E i \in 1..Len(groups[1].templates) : \E j \in 1..Len(groups[1].keynames) :
        /\ groups[1].templates[i] = t_M_S
        /\ groups[1].keynames[j] = s_j
        /\ Agrees(Made(i, j))

\* C8: a binding string with two or more '-'-separated segments parses to the
\* segments but the last, in order, as modifiers and the last segment as key
\* name: no modifier and no key name holds a '-', and the modifiers and the
\* key name joined with '-' are the string, which is the raw string too.
C8_RoundTrip ==
    (pc = "parse_groups" /\ ~NoDash(literals[1])) =>
        LET b == bindings[1] IN
        /\ b.raw = literals[1]
        /\ Len(b.keyname) = 1
        /\ NoDash(b.keyname[1])
        /\ \A m \in 1..Len(b.mods) : NoDash(b.mods[m])
        /\ Join(b.mods \o b.keyname, Dash) = literals[1]

C8_Witness ==
    /\ pc = "parse_groups"
    /\ Len(bindings[1].mods) = 2
    /\ bindings[1].keyname = << <<"j">> >>

\* the pattern after its last '-' (the whole pattern when it has none)
LastDash(s) == IF NoDash(s) THEN 0 ELSE CHOOSE i \in 1..Len(s) :
                    s[i] = "-" /\ \A h \in (i + 1)..Len(s) : s[h] # "-"
FinalSegment(s) == SubSeq(s, LastDash(s) + 1, Len(s))

\* the '-'-delimited segments before the final one
Prefixes(s) == IF LastDash(s) = 0 THEN <<>> ELSE Split(SubSeq(s, 1, LastDash(s) - 1))

Called == result # Pending

\* C4: a pattern whose final segment is no key of the table resolves to
\* "not found", whatever comes before the final segment.
C4_UnknownKeyIsNotFound ==
    (Called /\ FinalSegment(pattern) \notin DOMAIN xmodmap) => result = NotFound

C4_Witness ==
    /\ result = NotFound
    /\ Len(Prefixes(pattern)) >= 1
    /\ Prefixes(pattern)[1] = <<"X">>

\* the OR of the bits of a set of modifier tokens
MaskOf(T) ==
    (IF <<"A">> \in T THEN MOD_MASK_1 ELSE 0)
    + (IF <<"M">> \in T THEN MOD_MASK_4 ELSE 0)
    + (IF <<"S">> \in T THEN MOD_MASK_SHIFT ELSE 0)
    + (IF <<"C">> \in T THEN MOD_MASK_CONTROL ELSE 0)

Range(f) == {f[i] : i \in DOMAIN f}

\* C5: a pattern whose final segment is a key of the table and whose other
\* segments are all of A, M, S, C resolves to the table's code for the final
\* segment and the OR of the bits of the set of its modifier tokens (A Alt,
\* M Super, S Shift, C Control), whatever their order and number.
C5_ResolvesMaskAndCode ==
    ( /\ Called
      /\ FinalSegment(pattern) \in DOMAIN xmodmap
      /\ Range(Prefixes(pattern)) \subseteq ModifierTokens )
    => result = KeyCode(MaskOf(Range(Prefixes(pattern))), xmodmap[FinalSegment(pattern)])

C5_Witness ==
    /\ result = KeyCode(MOD_MASK_4 + MOD_MASK_SHIFT, 44)
    /\ pattern = <<"S", "-", "M", "-", "j">>

\* C9: a pattern whose final segment is a key of the table and one of whose
\* other segments is none of A, M, S, C halts the program with the first such
\* segment named: neither a key code nor "not found" comes back.
C9_UnknownModifierDies ==
    ( /\ Called
      /\ FinalSegment(pattern) \in DOMAIN xmodmap
      /\ ~(Range(Prefixes(pattern)) \subseteq ModifierTokens) )
    => LET ps == Prefixes(pattern)
           f == Min({i \in 1..Len(ps) : ps[i] \notin ModifierTokens})
       IN  result = Die(ps[f])

C9_Witness ==
    /\ result = Die(<<"X">>)
    /\ Len(Prefixes(pattern)) = 2
    /\ Prefixes(pattern)[1] = <<"M">>

\* C2: parse_key_binding gives a key code for a pattern exactly when the macro
\* accepts the binding set of that one pattern against the same key names.
C2_PathsAgree ==
    (Terminated /\ Called) => ((result.kind = "some") <=> (pc = "done"))

====
